---------------------------- MODULE Spec2Model ----------------------------
(***************************************************************************)
(* Model of the stock_factor dashboards: the DBManager engine cache of the *)
(* page scripts (src/pages/*.py, src/utils/db.py), the momentum factor     *)
(* computation (calc_momentum / get_data) and the per-entity aggregation   *)
(* loop of the momentum pages.                                             *)
(***************************************************************************)
EXTENDS Integers, Sequences, FiniteSets, TLC

(***************************************************************************)
(* Bounds of the model.                                                    *)
(***************************************************************************)
MaxCalls == 4
MaxRuns == 2
NThreads == 2

\* The store identifiers the pages pass to DBManager.get_engine.
Stores == {"index_price_day", "index_big_order", "index_small_order"}

\* What dict.get returns for a missing key.
None == 0

VARIABLES
  engines,   \* DBManager._engines: store id -> engine (a dict)
  heap,      \* the engine objects constructed so far: engine -> its store id
  usable,    \* the engines whose connection the server has not dropped
  run,       \* how many times the page script (its class statement) was executed
  prevRun,   \* history: _engines as the previous script run left it
  failed,    \* history: stores whose latest construction attempt in this run failed
  calls,     \* number of get_engine calls made so far
  last,      \* the last operation and what it gave back to its caller
  pc,        \* per thread: where it stands inside get_engine
  arg,       \* per thread: the database_name it was called with
  fresh,     \* per thread: the engine create_engine returned, not yet stored
  ret,       \* per thread: the value get_engine returned
  df,        \* the fetched table: rows (time, close), ascending in time
  days,      \* the window (the slider's value)
  out,       \* the table the factor computation returned
  fpc,       \* which factor function has run on df
  ic,        \* the per-period IC values of one holding period
  icsum,     \* the IC summary row of that period
  tables,    \* the store: entity -> its rows within the date range
  selected,  \* the multiselect's list of entities
  variant,   \* which script runs: the momentum page or momentum_dashboard
  pos,       \* how many entities of selected the loop has handled
  results,   \* the latest-values rows
  momentum_data, \* the wide table
  apc,       \* where the script run stands
  conn,      \* momentum_dashboard: the connection connect_db returned
  closes,    \* momentum_dashboard: how many times conn.close() ran
  relations, \* the entity identifiers that name a relation of the store
  healthy,   \* whether the store answers (connections and queries succeed)
  memo,      \* st.cache_data of get_data: arguments -> the memoized return
  ticks,     \* the clock, in half cache lifetimes
  nfetch,    \* number of fetch calls made so far
  fetch,     \* the last fetch call and what it gave back to its caller
  failedAt   \* history: arguments -> when get_data last ran and failed on them

cacheVars == <<engines, heap, usable, run, prevRun, failed, calls, last>>
threadVars == <<pc, arg, fresh, ret>>
factorVars == <<df, days, out, fpc, ic, icsum>>
aggVars == <<tables, selected, variant, pos, results, momentum_data, apc,
             conn, closes>>
fetchVars == <<relations, healthy, memo, ticks, nfetch, fetch, failedAt>>
dataVars == <<factorVars, aggVars, fetchVars>>
vars == <<cacheVars, threadVars, dataVars>>

EmptyDict == [x \in {} |-> None]

(***************************************************************************)
(* DBManager.get_engine, piece by piece.                                   *)
(***************************************************************************)
\* Faulty variant: the membership test is lost, every call constructs.
AlwaysConstruct(cache, d) == TRUE

\* `if database_name not in cls._engines`
NeedsConstruction(cache, d) == d \notin DOMAIN cache

\* `cls._engines[database_name] = create_engine(...)`
Put(cache, d, e) ==
  [x \in DOMAIN cache \cup {d} |-> IF x = d THEN e ELSE cache[x]]

\* `return cls._engines.get(database_name)`
Get(cache, d) == IF d \in DOMAIN cache THEN cache[d] ELSE None

\* The engine object a successful create_engine call returns: a new one.
NewEngine(h) == Cardinality(DOMAIN h) + 1

\* Outcome of the construction branch: skipped on a hit, else the try body
\* either completes or raises into the except clause.
Built(cache, d, ok) ==
  IF ~NeedsConstruction(cache, d) THEN "cached"
  ELSE IF ok THEN "created" ELSE "failed"

\* Faulty variant: the except clause stores the broken handle under the key.
CacheAfterKeepsFailure(cache, d, built, e) ==
  IF built = "created" THEN Put(cache, d, e)
  ELSE IF built = "failed" THEN Put(cache, d, None)
  ELSE cache

\* _engines after the if statement of get_engine.
CacheAfter(cache, d, built, e) ==
  IF built = "created" THEN Put(cache, d, e) ELSE cache

NoOp == [op |-> "init", store |-> "", value |-> None, built |-> "none",
         raised |-> "none", note |-> "none", retry |-> FALSE]

(***************************************************************************)
(* One session running a page script: the whole get_engine call is one     *)
(* step (the script run is single threaded).                               *)
(***************************************************************************)
InitThreads ==
  /\ pc = [t \in 1..NThreads |-> "idle"]
  /\ arg = [t \in 1..NThreads |-> ""]
  /\ fresh = [t \in 1..NThreads |-> None]
  /\ ret = [t \in 1..NThreads |-> None]

InitCache ==
  /\ engines = EmptyDict
  /\ heap = EmptyDict
  /\ usable = {}
  /\ run = 1
  /\ prevRun = EmptyDict
  /\ failed = {}
  /\ calls = 0
  /\ last = NoOp

\* No table fetched, no factor computed.
IdleFactor ==
  /\ df = <<>>
  /\ days = 1
  /\ out = <<>>
  /\ fpc = "idle"
  /\ ic = <<>>
  /\ icsum = <<>>

\* No aggregation loop running.
IdleAgg ==
  /\ tables = <<>>
  /\ selected = <<>>
  /\ variant = "none"
  /\ pos = 0
  /\ results = <<>>
  /\ momentum_data = <<>>
  /\ apc = "idle"
  /\ conn = "none"
  /\ closes = 0

NoFetch == [fn |-> "none", entity |-> "", window |-> 0, rows |-> <<>>,
            raised |-> "none", note |-> "none", hit |-> FALSE,
            queried |-> FALSE, failedNow |-> FALSE, afterFailure |-> FALSE,
            up |-> TRUE]

\* No fetch made, nothing memoized.
IdleFetch ==
  /\ relations = {}
  /\ healthy = TRUE
  /\ memo = <<>>
  /\ ticks = 0
  /\ nfetch = 0
  /\ fetch = NoFetch
  /\ failedAt = <<>>

InitSession == InitCache /\ InitThreads /\ IdleFactor /\ IdleAgg /\ IdleFetch

\* The body of DBManager.get_engine(d), wherever it is called from; ok says
\* whether the try body completes.
AcquireEngine(d, ok) ==
  /\ LET built == Built(engines, d, ok)
         e == NewEngine(heap)
         cache2 == CacheAfter(engines, d, built, e)
     IN /\ engines' = cache2
        /\ heap' = IF built = "created" THEN Put(heap, e, d) ELSE heap
        /\ usable' = IF built = "created" THEN usable \cup {e} ELSE usable
        /\ failed' = IF built = "failed" THEN failed \cup {d}
                     ELSE IF built = "created" THEN failed \ {d} ELSE failed
        /\ last' = [op |-> "get_engine", store |-> d, value |-> Get(cache2, d),
                    built |-> built, raised |-> "none", retry |-> d \in failed,
                    note |-> IF built = "created" THEN "info"
                             ELSE IF built = "failed" THEN "error" ELSE "none"]
  /\ calls' = calls + 1

\* DBManager.get_engine(d) called by the script itself.
GetEngine(d, ok) ==
  /\ calls < MaxCalls
  /\ AcquireEngine(d, ok)
  /\ UNCHANGED <<run, prevRun, threadVars, dataVars>>

\* The next interaction: the page script is executed again from its first
\* line, the class statement with `_engines = {}` included.
Rerun ==
  /\ run < MaxRuns
  /\ run' = run + 1
  /\ prevRun' = engines
  /\ engines' = EmptyDict
  /\ failed' = {}
  /\ last' = [NoOp EXCEPT !.op = "rerun"]
  /\ UNCHANGED <<heap, usable, calls, threadVars, dataVars>>

\* The server drops the connection of an engine (environment).
ServerDrop(e) ==
  /\ e \in usable
  /\ usable' = usable \ {e}
  /\ last' = [NoOp EXCEPT !.op = "server_drop"]
  /\ UNCHANGED <<engines, heap, run, prevRun, failed, calls, threadVars, dataVars>>

NextSession ==
  \/ \E d \in Stores, ok \in BOOLEAN : GetEngine(d, ok)
  \/ Rerun
  \/ \E e \in DOMAIN heap : ServerDrop(e)

SpecSession == InitSession /\ [][NextSession]_vars


(***************************************************************************)
(* C1: within one definition of DBManager (no script re-run in between),   *)
(* once a store id is cached every later get_engine of that store returns  *)
(* the very same engine object and constructs no new engine, whatever      *)
(* other stores are asked for in between.                                  *)
(***************************************************************************)
C1_SameEngineReturned ==
  [][\A d \in DOMAIN engines :
       run' = run =>
         /\ d \in DOMAIN engines'
         /\ engines'[d] = engines[d]
         /\ engines[d] # None
         /\ (calls' # calls /\ last'.store = d) =>
              /\ last'.value = engines[d]
              /\ heap' = heap]_vars

\* A second get_engine of a store answered from the cache.
C1_Witness ==
  /\ last.op = "get_engine"
  /\ last.built = "cached"
  /\ last.value # None
  /\ Cardinality(DOMAIN heap) >= 2

(***************************************************************************)
(* C2: the engine cache survives the re-execution of the page script: an   *)
(* engine that run k obtained for store d is what get_engine(d) returns in *)
(* run k+1, and run k+1 constructs no new engine for d.                    *)
(***************************************************************************)
C2_CacheSurvivesRerun ==
  (last.op = "get_engine" /\ last.store \in DOMAIN prevRun
     /\ last.built # "failed") =>
    /\ last.value = prevRun[last.store]
    /\ last.built = "cached"

(***************************************************************************)
(* C3: get_engine never returns a dead handle: the engine it returns is    *)
(* usable at the moment of the return, a dropped one having been replaced. *)
(***************************************************************************)
C3_NeverReturnsDeadHandle ==
  (last.op = "get_engine" /\ last.value # None) => last.value \in usable

Threads == 1..NThreads

InitShared == InitCache /\ InitThreads /\ IdleFactor /\ IdleAgg /\ IdleFetch

\* A thread enters get_engine(d).
Call(t, d) ==
  /\ pc[t] \in {"idle", "done"}
  /\ calls < MaxCalls
  /\ calls' = calls + 1
  /\ pc' = [pc EXCEPT ![t] = "test"]
  /\ arg' = [arg EXCEPT ![t] = d]
  /\ fresh' = [fresh EXCEPT ![t] = None]
  /\ ret' = [ret EXCEPT ![t] = None]
  /\ UNCHANGED <<engines, heap, usable, run, prevRun, failed, last, dataVars>>

\* `if database_name not in cls._engines:`
Test(t) ==
  /\ pc[t] = "test"
  /\ pc' = [pc EXCEPT ![t] =
              IF NeedsConstruction(engines, arg[t]) THEN "construct" ELSE "get"]
  /\ UNCHANGED <<cacheVars, arg, fresh, ret, dataVars>>

\* The try body up to the value of create_engine(...); a raise goes to the
\* except clause and on to the return.
Construct(t, ok) ==
  /\ pc[t] = "construct"
  /\ LET e == NewEngine(heap)
     IN IF ok
        THEN /\ heap' = Put(heap, e, arg[t])
             /\ usable' = usable \cup {e}
             /\ fresh' = [fresh EXCEPT ![t] = e]
             /\ pc' = [pc EXCEPT ![t] = "store"]
        ELSE /\ pc' = [pc EXCEPT ![t] = "get"]
             /\ UNCHANGED <<heap, usable, fresh>>
  /\ UNCHANGED <<engines, run, prevRun, failed, calls, last, arg, ret, dataVars>>

\* `cls._engines[database_name] = <the new engine>`
Store(t) ==
  /\ pc[t] = "store"
  /\ engines' = Put(engines, arg[t], fresh[t])
  /\ pc' = [pc EXCEPT ![t] = "get"]
  /\ UNCHANGED <<heap, usable, run, prevRun, failed, calls, last, arg, fresh, ret, dataVars>>

\* `return cls._engines.get(database_name)`
Return(t) ==
  /\ pc[t] = "get"
  /\ ret' = [ret EXCEPT ![t] = Get(engines, arg[t])]
  /\ pc' = [pc EXCEPT ![t] = "done"]
  /\ UNCHANGED <<cacheVars, arg, fresh, dataVars>>

NextShared ==
  \/ \E t \in Threads, d \in Stores : Call(t, d)
  \/ \E t \in Threads : Test(t)
  \/ \E t \in Threads, ok \in BOOLEAN : Construct(t, ok)
  \/ \E t \in Threads : Store(t)
  \/ \E t \in Threads : Return(t)

SpecShared == InitShared /\ [][NextShared]_vars

(***************************************************************************)
(* C5: however concurrent get_engine calls for one store interleave, at    *)
(* most one engine is ever constructed for the store (none is overwritten  *)
(* in the cache and left unreferenced) and all callers that got an engine  *)
(* for the store got the same one.                                         *)
(***************************************************************************)
C5_OneEnginePerStore ==
  /\ \A d \in Stores : Cardinality({e \in DOMAIN heap : heap[e] = d}) <= 1
  /\ \A t1, t2 \in Threads :
       (pc[t1] = "done" /\ pc[t2] = "done" /\ arg[t1] = arg[t2]
        /\ ret[t1] # None /\ ret[t2] # None) => ret[t1] = ret[t2]


(***************************************************************************)
(* Factor computation.  A float is a record: an exact fraction n/d in      *)
(* lowest terms (k = "num"), an infinity of sign n (k = "inf") or NaN.     *)
(***************************************************************************)
MaxLen == 3
MaxClose == 3
MaxWin == 2
MaxIc == 3

Abs(x) == IF x < 0 THEN -x ELSE x

RECURSIVE Gcd(_, _)
Gcd(a, b) == IF b = 0 THEN a ELSE Gcd(b, a % b)

NaN == [k |-> "nan", n |-> 0, d |-> 1]
Inf(sign) == [k |-> "inf", n |-> sign, d |-> 0]
Rat(a, b) ==
  LET g == Gcd(Abs(a), Abs(b))
      sg == IF b < 0 THEN -1 ELSE 1
  IN [k |-> "num", n |-> (sg * a) \div g, d |-> (sg * b) \div g]

\* x / y on floats holding the integers x and y: a zero divisor gives an
\* infinity, or NaN for 0/0, and raises nothing.
Div(x, y) ==
  IF y = 0
  THEN IF x = 0 THEN NaN ELSE Inf(IF x > 0 THEN 1 ELSE -1)
  ELSE Rat(x, y)

\* v - 1
SubOne(v) == IF v.k = "num" THEN Rat(v.n - v.d, v.d) ELSE v

\* a < b on floats that are not NaN
Lt(a, b) ==
  IF a.k = "inf" THEN a.n = -1 /\ ~(b.k = "inf" /\ b.n = -1)
  ELSE IF b.k = "inf" THEN b.n = 1
  ELSE a.n * b.d < b.n * a.d

IsNa(v) == v.k = "nan"

\* Faulty variant: the shift is one position short.
ShiftedShort(S, w, i) == IF i - w + 1 >= 1 THEN Rat(S[i - w + 1], 1) ELSE NaN

\* Series.shift(periods)[i]: the value periods rows earlier, NaN for the
\* first periods rows.
Shifted(S, w, i) == IF i - w >= 1 THEN Rat(S[i - w], 1) ELSE NaN

\* Series.pct_change(periods): data / data.shift(periods) - 1
PctChange(S, w) ==
  [i \in 1..Len(S) |->
     LET b == Shifted(S, w, i)
     IN IF IsNa(b) THEN NaN ELSE SubOne(Div(S[i], b.n))]

\* Series.rank(pct=True): average rank among the non-NaN values over their
\* count; NaN stays NaN.
RankPct(M) ==
  LET valid == {j \in 1..Len(M) : ~IsNa(M[j])}
  IN [i \in 1..Len(M) |->
        IF IsNa(M[i]) THEN NaN
        ELSE LET less == Cardinality({j \in valid : Lt(M[j], M[i])})
                 same == Cardinality({j \in valid : M[j] = M[i]})
             IN Rat(2 * less + same + 1, 2 * Cardinality(valid))]

\* df with the columns momentum and percentile added.
WithFactor(tab, w) ==
  LET S == [i \in 1..Len(tab) |-> tab[i].close]
      M == PctChange(S, w)
      P == RankPct(M)
  IN [i \in 1..Len(tab) |->
        [time |-> tab[i].time, close |-> tab[i].close,
         momentum |-> M[i], percentile |-> P[i]]]

\* Faulty variant: dropna is lost, the warm-up rows stay.
DropNaKeepsAll(rows) == rows

\* DataFrame.dropna(): the rows without a NaN cell, in order.
DropNa(rows) ==
  LET Complete(r) == ~IsNa(r.momentum) /\ ~IsNa(r.percentile)
  IN SelectSeq(rows, Complete)

\* calc_momentum(df, days) of momentum_dashboard.py
calc_momentum(tab, w) == DropNa(WithFactor(tab, w))

\* The momentum step of get_data of the momentum page: the columns are
\* added only to a non-empty table, dropna runs either way.
get_data_momentum(tab, w) ==
  IF tab # <<>> THEN DropNa(WithFactor(tab, w))
  ELSE <<>>

\* The IC summary of one period: mean, std (ddof = 1, as its square) and
\* `x.mean()/x.std() if x.std()!=0 else np.nan`.
Sum(x) ==
  LET RECURSIVE Go(_)
      Go(i) == IF i = 0 THEN 0 ELSE x[i] + Go(i - 1)
  IN Go(Len(x))

IcMean(x) == Rat(Sum(x), Len(x))

IcVar(x) ==
  IF Len(x) < 2 THEN NaN
  ELSE Rat(Len(x) * Sum([i \in 1..Len(x) |-> x[i] * x[i]]) - Sum(x) * Sum(x),
           Len(x) * (Len(x) - 1))

\* x.std() != 0: NaN compares unequal to 0.
StdNonZero(x) == IsNa(IcVar(x)) \/ IcVar(x).n # 0

IcIr(x) ==
  IF StdNonZero(x)
  THEN IF IsNa(IcVar(x)) THEN NaN
       ELSE [k |-> "ratio", mean |-> IcMean(x), var |-> IcVar(x)]
  ELSE NaN


(***************************************************************************)
(* The factor functions applied to every small table, and to the table of  *)
(* the end-to-end example.                                                  *)
(***************************************************************************)
\* A fetched table with the closes S on the days 1..Len(S).
Table(S) == [i \in 1..Len(S) |-> [time |-> i, close |-> S[i]]]

SeqsUpTo(V, n) == UNION {[1..m -> V] : m \in 0..n}

\* Entity IDX1: closes on 2024-01-01 .. 2024-01-05 (days 1..5).
Example == Table(<<100, 102, 101, 105, 110>>)

InitFactor ==
  /\ InitCache /\ InitThreads /\ IdleAgg /\ IdleFetch
  /\ out = <<>>
  /\ icsum = <<>>
  /\ \/ /\ df \in {Table(S) : S \in SeqsUpTo(0..MaxClose, MaxLen)}
        /\ days \in 1..MaxWin
        /\ ic = <<>>
        /\ fpc = "fetched"
     \/ /\ df = Example
        /\ days = 2
        /\ ic = <<>>
        /\ fpc = "fetched"
     \/ /\ df = <<>>
        /\ days = 1
        /\ ic \in SeqsUpTo(-1..1, MaxIc) \ {<<>>}
        /\ fpc = "ic"

\* momentum_dashboard: df = calc_momentum(df, days)
CalcMomentum ==
  /\ fpc = "fetched"
  /\ out' = calc_momentum(df, days)
  /\ fpc' = "calc_momentum"
  /\ UNCHANGED <<cacheVars, threadVars, aggVars, fetchVars, df, days, ic, icsum>>

\* momentum page: the momentum step of get_data
GetDataMomentum ==
  /\ fpc = "fetched"
  /\ out' = get_data_momentum(df, days)
  /\ fpc' = "get_data"
  /\ UNCHANGED <<cacheVars, threadVars, aggVars, fetchVars, df, days, ic, icsum>>

\* flow page: the ic_summary row of one period
IcSummary ==
  /\ fpc = "ic"
  /\ icsum' = [mean |-> IcMean(ic), var |-> IcVar(ic), ic_ir |-> IcIr(ic)]
  /\ fpc' = "ic_summary"
  /\ UNCHANGED <<cacheVars, threadVars, aggVars, fetchVars, df, days, ic, out>>

NextFactor == CalcMomentum \/ GetDataMomentum \/ IcSummary

SpecFactor == InitFactor /\ [][NextFactor]_vars

Computed == fpc \in {"calc_momentum", "get_data"}

\* m = a / b - 1
IsRatioMinusOne(m, a, b) == m.k = "num" /\ (m.n + m.d) * b = a * m.d

(***************************************************************************)
(* C6: for a close series without null and zero values and a window w, the *)
(* momentum computation returns exactly the rows at positions w+1..n (the  *)
(* first w rows are gone), in order, and the momentum of each is its close *)
(* over the close w rows earlier, minus 1.                                 *)
(***************************************************************************)
C6_MomentumRows ==
  (Computed /\ \A i \in 1..Len(df) : df[i].close # 0) =>
    /\ Len(out) = (IF Len(df) > days THEN Len(df) - days ELSE 0)
    /\ \A j \in 1..Len(out) :
         /\ out[j].time = df[j + days].time
         /\ out[j].close = df[j + days].close
         /\ IsRatioMinusOne(out[j].momentum, df[j + days].close, df[j].close)

\* A series longer than the window, with a rise and a fall in its output.
C6_Witness ==
  /\ Computed
  /\ \A i \in 1..Len(df) : df[i].close # 0
  /\ Len(df) = days + 2
  /\ Len(out) = 2
  /\ out[1].momentum.n > 0
  /\ out[2].momentum.n < 0

(***************************************************************************)
(* C7 as stated: closes 100, 102, 101, 105, 110 on 2024-01-01..05, window  *)
(* 2, give (01-03, 101/102-1), (01-04, 105/100-1), (01-05, 110/101-1).     *)
(***************************************************************************)
C7_ExampleAsStated ==
  (Computed /\ df = Example /\ days = 2) =>
    /\ Len(out) = 3
    /\ out[1].time = 3 /\ IsRatioMinusOne(out[1].momentum, 101, 102)
    /\ out[2].time = 4 /\ IsRatioMinusOne(out[2].momentum, 105, 100)
    /\ out[3].time = 5 /\ IsRatioMinusOne(out[3].momentum, 110, 101)

(***************************************************************************)
(* C7 amended: the same input gives (2024-01-03, 101/100-1),               *)
(* (2024-01-04, 105/102-1), (2024-01-05, 110/101-1): each close over the   *)
(* close two days earlier.                                                  *)
(***************************************************************************)
C7_ExampleAmended ==
  (Computed /\ df = Example /\ days = 2) =>
    /\ Len(out) = 3
    /\ out[1].time = 3 /\ IsRatioMinusOne(out[1].momentum, 101, 100)
    /\ out[2].time = 4 /\ IsRatioMinusOne(out[2].momentum, 105, 102)
    /\ out[3].time = 5 /\ IsRatioMinusOne(out[3].momentum, 110, 101)

\* The example has been computed.
C7_Witness == Computed /\ df = Example /\ days = 2 /\ Len(out) = 3

(***************************************************************************)
(* C8: a division by zero gives NaN and the row is dropped: no row whose   *)
(* base close (days rows earlier) is 0 is in the output of the momentum    *)
(* computation, and the IC information ratio is NaN when the standard      *)
(* deviation of the period's IC values is exactly 0.                       *)
(***************************************************************************)
C8_ZeroBaseRowsDropped ==
  /\ Computed =>
       \A i \in 1..Len(df) :
         (i > days /\ df[i - days].close = 0) =>
           \A j \in 1..Len(out) : out[j].time # df[i].time
  /\ (fpc = "ic_summary" /\ ~IsNa(icsum.var) /\ icsum.var.n = 0) =>
       icsum.ic_ir.k = "nan"


(***************************************************************************)
(* The aggregation loop of the momentum page (main) and of                 *)
(* momentum_dashboard (script body) over the selected entities.            *)
(***************************************************************************)
MaxTime == 3

Entities == {"A", "B", "C"}

\* The close of every entity on day t (a positive price).
CloseOn(t) == t + 1

\* The rows an entity can have within the date range: the days a..b.
Ranges ==
  {[i \in 1..(b - a + 1) |-> [time |-> a + i - 1, close |-> CloseOn(a + i - 1)]] :
     a \in 1..MaxTime, b \in 0..MaxTime}

\* The lists a multiselect can return: no entity twice.
Selections ==
  {sel \in SeqsUpTo(Entities, Cardinality(Entities)) :
     \A i, j \in 1..Len(sel) : i # j => sel[i] # sel[j]}

\* f"{v:.<digits>%}": the value times 100, rounded half-even to digits
\* decimals, as a count of the last decimal; inf and nan print as such.
FormatPct(v, digits) ==
  IF v.k # "num" THEN [text |-> v.k, units |-> 0, digits |-> digits]
  ELSE LET scale == IF digits = 1 THEN 1000 ELSE 10000
           num == Abs(v.n) * scale
           q == num \div v.d
           r == num % v.d
           up == 2 * r > v.d \/ (2 * r = v.d /\ q % 2 = 1)
           mag == IF up THEN q + 1 ELSE q
       IN [text |-> "pct", units |-> (IF v.n < 0 THEN -mag ELSE mag),
           digits |-> digits]

\* pd.DataFrame()
EmptyFrame == [index |-> <<>>, columns |-> <<>>, cells |-> <<>>]

SeqSet(q) == {q[i] : i \in 1..Len(q)}

\* df.set_index('time')['momentum'] looked up at time t (NaN when absent).
At(rows, t) ==
  IF \E i \in 1..Len(rows) : rows[i].time = t
  THEN (CHOOSE r \in SeqSet(rows) : r.time = t).momentum
  ELSE NaN

\* The index after `momentum_data[idx] = series`: a frame without rows
\* takes the index of the series, any other frame keeps its own.
FrameIndex(md, rows) ==
  IF Len(md.index) = 0 /\ Len(rows) > 0
  THEN [i \in 1..Len(rows) |-> rows[i].time]
  ELSE md.index

\* momentum_data[idx] = df.set_index('time')['momentum']
SetColumn(md, idx, rows) ==
  LET index2 == FrameIndex(md, rows)
      cols2 == IF idx \in SeqSet(md.columns) THEN md.columns
               ELSE Append(md.columns, idx)
  IN [index |-> index2,
      columns |-> cols2,
      cells |-> [c \in SeqSet(cols2) |->
                   [t \in SeqSet(index2) |->
                      IF c = idx THEN At(rows, t)
                      ELSE IF t \in SeqSet(md.index) THEN md.cells[c][t]
                      ELSE NaN]]]

\* The row appended to results for entity idx with factor table rows.
ResultRow(idx, rows) ==
  LET latest == rows[Len(rows)]
  IN [index |-> idx,
      momentum |-> FormatPct(latest.momentum, 2),
      percentile |-> FormatPct(latest.percentile, 1)]

InitAggregate ==
  /\ InitCache /\ InitThreads /\ IdleFactor /\ IdleFetch
  /\ conn = "none"
  /\ closes = 0
  /\ tables \in [Entities -> Ranges]
  /\ selected \in Selections
  /\ variant \in {"page", "dashboard"}
  /\ pos = 0
  /\ results = <<>>
  /\ momentum_data = EmptyFrame
  /\ apc = "start"

aggFixed == <<cacheVars, threadVars, fetchVars, df, out, fpc, ic, icsum, tables,
              selected, variant>>

\* The slider is read, then `if selected` (and the date range of the page,
\* which always has its two ends here) guards the loop.  momentum_dashboard
\* has opened its connection in the sidebar block; with nothing selected
\* the script runs straight on to its last statement, conn.close().
Start(w) ==
  /\ apc = "start"
  /\ days' = w
  /\ apc' = IF Len(selected) > 0 THEN "loop" ELSE "done"
  /\ IF variant = "dashboard"
     THEN IF Len(selected) > 0
          THEN conn' = "open" /\ closes' = closes
          ELSE conn' = "closed" /\ closes' = closes + 1
     ELSE UNCHANGED <<conn, closes>>
  /\ UNCHANGED <<aggFixed, pos, results, momentum_data>>

\* One iteration of `for i, idx in enumerate(selected)` of the page.
PageIteration ==
  /\ variant = "page"
  /\ apc = "loop"
  /\ pos < Len(selected)
  /\ LET idx == selected[pos + 1]
         rows == get_data_momentum(tables[idx], days)
     IN IF rows # <<>>
        THEN /\ results' = Append(results, ResultRow(idx, rows))
             /\ momentum_data' = SetColumn(momentum_data, idx, rows)
        ELSE UNCHANGED <<results, momentum_data>>
  /\ pos' = pos + 1
  /\ UNCHANGED <<aggFixed, days, apc, conn, closes>>

\* One iteration of `for idx in selected` of momentum_dashboard: the date
\* filtered table, calc_momentum when it is not empty, then df.iloc[-1],
\* which raises IndexError on a table without rows and ends the script.
DashboardIteration ==
  /\ variant = "dashboard"
  /\ apc = "loop"
  /\ pos < Len(selected)
  /\ LET idx == selected[pos + 1]
         rows == calc_momentum(tables[idx], days)
     IN IF tables[idx] = <<>>
        THEN /\ pos' = pos + 1
             /\ UNCHANGED <<results, momentum_data, apc>>
        ELSE IF rows = <<>>
        THEN /\ apc' = "raised"
             /\ UNCHANGED <<results, momentum_data, pos>>
        ELSE /\ results' = Append(results, ResultRow(idx, rows))
             /\ momentum_data' = SetColumn(momentum_data, idx, rows)
             /\ pos' = pos + 1
             /\ UNCHANGED apc
  /\ UNCHANGED <<aggFixed, days, conn, closes>>

\* `if conn: conn.close()`, the last statement of momentum_dashboard.
Close(c) == IF c = "open" THEN "closed" ELSE c

\* The loop is exhausted: the chart and the table are shown, and
\* momentum_dashboard closes its connection.
LoopEnd ==
  /\ apc = "loop"
  /\ pos = Len(selected)
  /\ apc' = "done"
  /\ IF variant = "dashboard"
     THEN conn' = Close(conn) /\ closes' = closes + 1
     ELSE UNCHANGED <<conn, closes>>
  /\ UNCHANGED <<aggFixed, days, pos, results, momentum_data>>

NextAggregate ==
  \/ \E w \in 1..MaxWin : Start(w)
  \/ PageIteration
  \/ DashboardIteration
  \/ LoopEnd

SpecAggregate == InitAggregate /\ [][NextAggregate]_vars

\* The table the loop tests with `if not df.empty` for entity e.
Fetched(e) ==
  IF variant = "page" THEN get_data_momentum(tables[e], days) ELSE tables[e]

\* The factor series of entity e.
FactorOf(e) ==
  IF variant = "page" THEN get_data_momentum(tables[e], days)
  ELSE calc_momentum(tables[e], days)

HasData(e) == Fetched(e) # <<>>

RunEnded == apc \in {"done", "raised"}

(***************************************************************************)
(* C9: when the run has ended, the latest-values rows are exactly the      *)
(* selected entities whose fetch returned data, each once and in selection *)
(* order, and the wide table has a column for exactly those entities.      *)
(***************************************************************************)
C9_RowsAreEntitiesWithData ==
  RunEnded =>
    /\ [i \in 1..Len(results) |-> results[i].index] = SelectSeq(selected, HasData)
    /\ momentum_data.columns = SelectSeq(selected, HasData)

(***************************************************************************)
(* C10: when the loop has finished, the row index of the wide table is the *)
(* union of the timestamps of the factor series of all included entities,  *)
(* and an entity has NaN at the timestamps its series lacks.               *)
(***************************************************************************)
C10_IndexIsUnionOfTimestamps ==
  apc = "done" =>
    LET included == SeqSet(momentum_data.columns)
        TimesOf(e) == {FactorOf(e)[i].time : i \in 1..Len(FactorOf(e))}
    IN /\ SeqSet(momentum_data.index) = UNION {TimesOf(e) : e \in included}
       /\ \A e \in included : \A t \in SeqSet(momentum_data.index) :
            t \notin TimesOf(e) => IsNa(momentum_data.cells[e][t])


\* A selected entity with rows in the date range, but no more than the
\* window: every row of it is a warm-up row.
Short(e) == tables[e] # <<>> /\ Len(tables[e]) <= days

HasShort == apc # "start" /\ \E k \in 1..Len(selected) : Short(selected[k])

(***************************************************************************)
(* C12: a run whose selection holds an entity with 1..window rows raises   *)
(* nothing and handles every selected entity; when it is done, that entity *)
(* has no latest-values row and no column, and every selected entity with  *)
(* more rows than the window has both.                                     *)
(***************************************************************************)
C12_ShortSeriesSilentlyExcluded ==
  HasShort =>
    /\ apc # "raised"
    /\ apc = "done" =>
         /\ pos = Len(selected)
         /\ \A k \in 1..Len(selected) :
              LET e == selected[k]
                  row == \E i \in 1..Len(results) : results[i].index = e
                  col == e \in SeqSet(momentum_data.columns)
              IN /\ Short(e) => ~row /\ ~col
                 /\ Len(tables[e]) > days => row /\ col

(***************************************************************************)
(* C13: every run of momentum_dashboard that has ended, normally or by an  *)
(* exception, has closed the connection it opened exactly once; none ends  *)
(* with the connection open.                                               *)
(***************************************************************************)
C13_ConnectionClosedOnEveryPath ==
  (variant = "dashboard" /\ RunEnded) => (conn = "closed" /\ closes = 1)


(***************************************************************************)
(* The fetch functions against a store in which some entity identifiers    *)
(* name no relation and which may be down for a while: get_data of the     *)
(* momentum page (memoized by st.cache_data), get_data_from_db of the flow *)
(* page and get_data of momentum_dashboard.                                *)
(***************************************************************************)
MaxFetches == 2
MaxTicks == 2

\* @st.cache_data(ttl=600)
TTL == 600

\* database_name of the momentum page.
PriceStore == "index_price_day"

\* Seconds since the start.
Now == ticks * (TTL \div 2)

\* The rows a relation can hold: the days 1..b.
StoredRows ==
  {[i \in 1..b |-> [time |-> i, close |-> CloseOn(i)]] :
     b \in (MaxTime - 1)..MaxTime}

\* The SELECT on relation e: the store down or the relation missing makes
\* the driver raise, else the rows come back ordered by time.
Query(e) ==
  IF ~healthy THEN [raised |-> "OperationalError", rows |-> <<>>]
  ELSE IF e \notin relations THEN [raised |-> "ProgrammingError", rows |-> <<>>]
  ELSE [raised |-> "none", rows |-> tables[e]]

\* st.cache_data: the entry of these arguments, while younger than the ttl.
Memoized(key) == key \in DOMAIN memo /\ Now - memo[key].at < TTL

InitFetch ==
  /\ InitCache /\ InitThreads /\ IdleFactor
  /\ variant \in {"page", "flow", "dashboard"}
  /\ relations \in SUBSET Entities
  /\ tables \in [relations -> StoredRows]
  /\ selected = <<>>
  /\ pos = 0
  /\ results = <<>>
  /\ momentum_data = <<>>
  /\ apc = "idle"
  /\ conn = IF variant = "dashboard" THEN "open" ELSE "none"
  /\ closes = 0
  /\ healthy = TRUE
  /\ memo = <<>>
  /\ ticks = 0
  /\ nfetch = 0
  /\ fetch = NoFetch
  /\ failedAt = <<>>

fetchFixed == <<threadVars, factorVars, aggVars, relations, healthy, ticks,
                run, prevRun>>

\* get_data(database_name, e, w, start, end) of the momentum page, called
\* through its st.cache_data wrapper: a memoized return is handed back
\* without running the body; else the body runs (get_engine, the query, the
\* momentum step, or an empty table from `if not engine` or the except
\* clause) and whatever it returns is memoized.
PageGetData(e, w, ok) ==
  /\ variant = "page"
  /\ nfetch < MaxFetches
  /\ nfetch' = nfetch + 1
  /\ LET key == <<e, w>>
         recent == key \in DOMAIN failedAt /\ Now - failedAt[key] < TTL
     IN IF Memoized(key)
        THEN /\ fetch' = [fn |-> "get_data", entity |-> e, window |-> w,
                          rows |-> memo[key].value, raised |-> "none",
                          note |-> "none", hit |-> TRUE, queried |-> FALSE,
                          failedNow |-> FALSE, afterFailure |-> recent,
                          up |-> healthy]
             /\ UNCHANGED <<cacheVars, memo, failedAt>>
        ELSE LET engine == Get(CacheAfter(engines, PriceStore,
                                          Built(engines, PriceStore, ok),
                                          NewEngine(heap)), PriceStore)
                 q == Query(e)
                 bad == engine = None \/ q.raised # "none"
                 value == IF bad THEN <<>> ELSE get_data_momentum(q.rows, w)
             IN /\ AcquireEngine(PriceStore, ok)
                /\ memo' = Put(memo, key, [value |-> value, at |-> Now])
                /\ failedAt' = IF bad THEN Put(failedAt, key, Now) ELSE failedAt
                /\ fetch' = [fn |-> "get_data", entity |-> e, window |-> w,
                             rows |-> value, raised |-> "none",
                             note |-> IF bad THEN "error" ELSE "none",
                             hit |-> FALSE, queried |-> engine # None,
                             failedNow |-> bad, afterFailure |-> recent,
                             up |-> healthy]
  /\ UNCHANGED fetchFixed

\* get_data_from_db('index_price_day', e) of the flow page: no engine gives
\* an empty table, a raising read_sql is caught and gives an empty table.
FlowGetDataFromDb(e, ok) ==
  /\ variant = "flow"
  /\ nfetch < MaxFetches
  /\ nfetch' = nfetch + 1
  /\ LET engine == Get(CacheAfter(engines, PriceStore,
                                  Built(engines, PriceStore, ok),
                                  NewEngine(heap)), PriceStore)
         q == Query(e)
         bad == engine = None \/ q.raised # "none"
     IN /\ AcquireEngine(PriceStore, ok)
        /\ fetch' = [fn |-> "get_data_from_db", entity |-> e, window |-> 0,
                     rows |-> IF bad THEN <<>> ELSE q.rows, raised |-> "none",
                     note |-> IF bad THEN "error" ELSE "none",
                     hit |-> FALSE, queried |-> engine # None,
                     failedNow |-> bad, afterFailure |-> FALSE, up |-> healthy]
  /\ UNCHANGED <<fetchFixed, memo, failedAt>>

\* get_data(conn, e) of momentum_dashboard: pd.read_sql with no try around
\* it, what the driver raises leaves the function.
DashboardGetData(e) ==
  /\ variant = "dashboard"
  /\ nfetch < MaxFetches
  /\ nfetch' = nfetch + 1
  /\ LET q == Query(e)
     IN fetch' = [fn |-> "dashboard_get_data", entity |-> e, window |-> 0,
                  rows |-> q.rows, raised |-> q.raised, note |-> "none",
                  hit |-> FALSE, queried |-> TRUE,
                  failedNow |-> q.raised # "none", afterFailure |-> FALSE,
                  up |-> healthy]
  /\ UNCHANGED <<fetchFixed, cacheVars, memo, failedAt>>

\* The store goes down, or comes back (environment).
StoreDown ==
  /\ healthy
  /\ healthy' = FALSE
  /\ UNCHANGED <<cacheVars, threadVars, factorVars, aggVars, relations, memo,
                 ticks, nfetch, fetch, failedAt>>

StoreUp ==
  /\ ~healthy
  /\ healthy' = TRUE
  /\ UNCHANGED <<cacheVars, threadVars, factorVars, aggVars, relations, memo,
                 ticks, nfetch, fetch, failedAt>>

\* Half a cache lifetime passes.
Tick ==
  /\ ticks < MaxTicks
  /\ ticks' = ticks + 1
  /\ UNCHANGED <<cacheVars, threadVars, factorVars, aggVars, relations, memo,
                 healthy, nfetch, fetch, failedAt>>

NextFetch ==
  \/ \E e \in Entities, w \in 1..MaxWin, ok \in BOOLEAN : PageGetData(e, w, ok)
  \/ \E e \in Entities, ok \in BOOLEAN : FlowGetDataFromDb(e, ok)
  \/ \E e \in Entities : DashboardGetData(e)
  \/ StoreDown
  \/ StoreUp
  \/ Tick

SpecFetch == InitFetch /\ [][NextFetch]_vars

(***************************************************************************)
(* C11: whichever fetch function is called with an entity identifier that  *)
(* names no relation of the store, it returns an empty table to its caller *)
(* and raises nothing.                                                     *)
(***************************************************************************)
C11_MissingRelationGivesEmpty ==
  (fetch.fn # "none" /\ fetch.entity \notin relations) =>
    /\ fetch.raised = "none"
    /\ fetch.rows = <<>>

(***************************************************************************)
(* C14: a call of get_data of the momentum page made less than 600 seconds *)
(* after a call with the same arguments failed, with the store healthy     *)
(* again, the relation there and the call itself not failing, queries the  *)
(* store and returns the entity's data, not a memoized empty table.        *)
(***************************************************************************)
C14_FailedFetchNotRemembered ==
  (fetch.fn = "get_data" /\ fetch.afterFailure /\ fetch.up
     /\ fetch.entity \in relations /\ ~fetch.failedNow) =>
    /\ fetch.queried
    /\ fetch.rows = get_data_momentum(tables[fetch.entity], fetch.window)

=============================================================================
